---- MODULE Spec2Model ----
(***************************************************************************)
(* Server side of the block range protocol: the BlocksRequest handler of   *)
(* sync/handler_blocks_request.go.  The handler runs on the synchronizer's *)
(* event loop; the state layer commits blocks on a thread of its own, so   *)
(* the handler is cut at each read of the state facade or of the store.    *)
(***************************************************************************)
EXTENDS Integers, Sequences, FiniteSets, TLC

\* ------------------------------------------------------------------ bounds
\* uint32 is modelled with UintBits bits (TLC integers are 32-bit signed).
UintBits == 5
\* highest block height the state layer commits in the model
MaxHeight == 4
\* requests are drawn with from in 0..MaxFrom and count in 0..MaxCount
MaxFrom == 5
MaxCount == 4
\* configuration values are drawn from 1..MaxInterval and 1..MaxPerMessage
MaxInterval == 3
MaxPerMessage == 2
\* the store misses at most MaxMissing of the committed blocks (pruned or lost)
MaxMissing == 1

UintMod == 2 ^ UintBits

\* ------------------------------------------------------------- vocabulary
PeerIDs == {"p1", "p2"}
SessionIDs == {1, 2}

StatusUnknown == "unknown"
StatusConnected == "connected"
StatusKnown == "known"
StatusBanned == "banned"
StatusDisconnected == "disconnected"
Statuses == {StatusUnknown, StatusConnected, StatusKnown, StatusBanned, StatusDisconnected}

ResponseCodeRejected == "Rejected"
ResponseCodeMoreBlocks == "MoreBlocks"
ResponseCodeNoMoreBlocks == "NoMoreBlocks"
ResponseCodeSynced == "Synced"

NoPeer == "none"
NoRequest == [from |-> 0, count |-> 0, sessionID |-> 0]

VARIABLES
    config,      \* handler.config: NodeNetwork, LatestBlockInterval, BlockPerMessage
    peerSet,     \* handler.peerSet: peer id -> record, absent peers have no entry
    sessions,    \* the session manager's table of the sessions this node opened
    stateHeight, \* the state facade: height of the last committed block
    store,       \* heights of the blocks the store holds
    pc,          \* position of the dispatch: idle, dropped, loop, final, done
    msg,         \* the BlocksRequestMessage being handled
    pid,         \* the peer it came from
    ourHeight,   \* local ourHeight (line 45)
    height,      \* local height (line 76)
    count,       \* local count (line 77)
    outbox,      \* messages handed to sendTo while handling msg, in send order
    blockReads,  \* number of prepareBlocks calls while handling msg
    certReads,   \* number of LastCertificate calls while handling msg
    prev         \* history: <<>> or the request handled before msg, with its responses

vars == <<config, peerSet, sessions, stateHeight, store, pc, msg, pid, ourHeight,
          height, count, outbox, blockReads, certReads, prev>>

\* ---------------------------------------------------------------- helpers
Min(a, b) == IF a < b THEN a ELSE b

\* uint32 arithmetic
UAdd(a, b) == (a + b) % UintMod
USub(a, b) == (a - b + UintMod) % UintMod

\* peerSet.GetPeerStatus: absent peers are Unknown
GetPeerStatus(p) == IF p \in DOMAIN peerSet THEN peerSet[p].status ELSE StatusUnknown

IsUnknown(status) == status = StatusUnknown
IsKnown(status) == status = StatusKnown

\* state.LastBlockHeight()
LastBlockHeight == stateHeight

\* state.LastCertificate(): the certificate of the last committed block
LastCertificate == [height |-> stateHeight]

\* msg.To(): the last requested height, in uint32
To(m) == USub(UAdd(m.from, m.count), 1)

\* message.NewBlocksResponseMessage(code, reason, sid, from, blocksData, lastCert)
\* blocks are named by their heights; cert is <<>> (nil) or <<certificate>>
NewBlocksResponseMessage(code, reason, sid, from, blocksData, cert) ==
    [code |-> code, reason |-> reason, sessionID |-> sid, from |-> from,
     blocks |-> blocksData, cert |-> cert]

\* fmt.Sprintf of the reasons: the words of the format string and its arguments
Reason(words, who, nums) == [text |-> words, who |-> who, nums |-> nums]

\* code.String() of the codes that are their own reason
CodeString(code) == Reason(<<code>>, "", <<>>)

\* ------------------------------------------------- the precondition checks
\* variant: the Unknown check never fires
UnknownPeerMut(status) == FALSE

\* line 27: the status is Unknown
UnknownPeer(status) == IsUnknown(status)

\* variant: only a banned peer is refused
NotHandshakedMut(status) == status = StatusBanned

\* line 36: the handshake is not complete
NotHandshaked(status) == ~IsKnown(status)

\* variant: the NodeNetwork flag is read the wrong way round
HeightNotAcceptableMut(from, our) ==
    /\ config.NodeNetwork
    /\ our > config.LatestBlockInterval
    /\ from < USub(our, config.LatestBlockInterval)

\* variant: the subtraction is made without the guard ourHeight > LatestBlockInterval
HeightNotAcceptableNoGuardMut(from, our) ==
    /\ ~config.NodeNetwork
    /\ from < USub(our, config.LatestBlockInterval)

\* variant: the window is checked on archival nodes too
HeightNotAcceptableAlwaysMut(from, our) ==
    /\ our > config.LatestBlockInterval
    /\ from < USub(our, config.LatestBlockInterval)

\* variant: the lower bound of the window is itself refused
HeightNotAcceptableExclusiveMut(from, our) ==
    /\ ~config.NodeNetwork
    /\ our > config.LatestBlockInterval
    /\ from <= USub(our, config.LatestBlockInterval)

\* variant: the window is checked on both sides
HeightNotAcceptableTwoSidedMut(from, our) ==
    /\ ~config.NodeNetwork
    /\ \/ from > our
       \/ (our > config.LatestBlockInterval /\ from < USub(our, config.LatestBlockInterval))

\* lines 46-47: a non-archival node refuses a from below its recent window
HeightNotAcceptable(from, our) ==
    /\ ~config.NodeNetwork
    /\ our > config.LatestBlockInterval
    /\ from < USub(our, config.LatestBlockInterval)

\* variant: off by one, the height after the tip is let through
DontHaveBlocksMut(from, our) == from > our + 1

\* line 57
DontHaveBlocks(from, our) == from > our

\* variant: off by one, a full interval is refused
TooManyBlocksMut(cnt) == cnt >= config.LatestBlockInterval

\* line 66
TooManyBlocks(cnt) == cnt > config.LatestBlockInterval

\* lines 28-29
UnknownPeerResponse(m, p) ==
    NewBlocksResponseMessage(ResponseCodeRejected,
        Reason(<<"unknown", "peer">>, p, <<>>), m.sessionID, 0, <<>>, <<>>)

\* lines 37-38
NotHandshakedResponse(m, status) ==
    NewBlocksResponseMessage(ResponseCodeRejected,
        Reason(<<"not", "handshaked">>, status, <<>>), m.sessionID, 0, <<>>, <<>>)

\* lines 48-49
HeightNotAcceptableResponse(m) ==
    NewBlocksResponseMessage(ResponseCodeRejected,
        Reason(<<"the", "request", "height", "is", "not", "acceptable">>, "", <<m.from>>),
        m.sessionID, 0, <<>>, <<>>)

\* lines 58-59
DontHaveBlocksResponse(m) ==
    NewBlocksResponseMessage(ResponseCodeRejected,
        Reason(<<"don't", "have", "requested", "blocks">>, "", <<m.from>>),
        m.sessionID, 0, <<>>, <<>>)

\* lines 67-68
TooManyBlocksResponse(m) ==
    NewBlocksResponseMessage(ResponseCodeRejected,
        Reason(<<"too", "many", "blocks", "requested">>, "", <<m.from, m.count>>),
        m.sessionID, 0, <<>>, <<>>)

\* ------------------------------------------------------- the pagination loop
\* variant: the remaining count is not taken into account
BlockToReadMut(cnt) == config.BlockPerMessage

\* line 79
BlockToRead(cnt) == Min(config.BlockPerMessage, cnt)

\* the heights from, from+1, ... that the store holds without a gap, at most n
RECURSIVE ReadRun(_, _)
ReadRun(from, n) ==
    IF n = 0 \/ from \notin store THEN <<>>
    ELSE <<from>> \o ReadRun(from + 1, n - 1)

\* synchronizer.prepareBlocks: up to n consecutive blocks of the store from `from`
prepareBlocks(from, n) == ReadRun(from, n)

\* variant: an empty read does not leave the loop
EmptyReadMut(blocksData) == FALSE

\* line 81
EmptyRead(blocksData) == Len(blocksData) = 0

\* lines 85-86
MoreBlocksResponse(m, h, blocksData) ==
    NewBlocksResponseMessage(ResponseCodeMoreBlocks, CodeString(ResponseCodeMoreBlocks),
        m.sessionID, h, blocksData, <<>>)

\* variant: the height advances by one whatever was read
NextHeightMut(h, blocksData) == UAdd(h, 1)

\* line 89
NextHeight(h, blocksData) == UAdd(h, Len(blocksData))

\* variant: the remaining count is not lowered
NextCountMut(cnt, blocksData) == cnt

\* line 90
NextCount(cnt, blocksData) == USub(cnt, Len(blocksData))

\* variant: the loop is left after the first message
LoopDoneMut(cnt) == TRUE

\* line 91
LoopDone(cnt) == cnt <= 0

\* ------------------------------------------------------- the final response
\* variant: strict comparison with the tip
ReachedTipMut(m, our) == To(m) > our

\* line 96
ReachedTip(m, our) == To(m) >= our

\* variant: the height reported is the one read before the checks
SyncedResponseMut(m, lastCert) ==
    NewBlocksResponseMessage(ResponseCodeSynced, CodeString(ResponseCodeSynced),
        m.sessionID, ourHeight, <<>>, <<lastCert>>)

\* lines 98-99
SyncedResponse(m, lastCert) ==
    NewBlocksResponseMessage(ResponseCodeSynced, CodeString(ResponseCodeSynced),
        m.sessionID, lastCert.height, <<>>, <<lastCert>>)

\* lines 106-107
NoMoreBlocksResponse(m) ==
    NewBlocksResponseMessage(ResponseCodeNoMoreBlocks, CodeString(ResponseCodeNoMoreBlocks),
        m.sessionID, 0, <<>>, <<>>)

\* variant: respond broadcasts the message instead of sending it to `to`
respondBroadcastMut(box, response, to) == Append(box, [to |-> "broadcast", msg |-> response])

\* respond / sendTo: both branches of respond unicast the message to `to`
respond(box, response, to) == Append(box, [to |-> to, msg |-> response])

\* ------------------------------------------------------------ initial state
Stores(h) == {s \in SUBSET (1 .. h) : Cardinality((1 .. h) \ s) <= MaxMissing}

\* p1 has a record with any status; p2 has no record
PeerSets == [{"p1"} -> [status : Statuses, invalidMessages : {0}]]

Init ==
    /\ config \in [NodeNetwork : BOOLEAN,
                   LatestBlockInterval : 1 .. MaxInterval,
                   BlockPerMessage : 1 .. MaxPerMessage]
    /\ peerSet \in PeerSets
    /\ sessions = {}
    /\ stateHeight \in 0 .. MaxHeight
    /\ store \in Stores(stateHeight)
    /\ pc = "idle"
    /\ msg = NoRequest
    /\ pid = NoPeer
    /\ ourHeight = 0
    /\ height = 0
    /\ count = 0
    /\ outbox = <<>>
    /\ blockReads = 0
    /\ certReads = 0
    /\ prev = <<>>

\* ------------------------------------------------------------------ actions
Requests == [from : 0 .. MaxFrom, count : 0 .. MaxCount, sessionID : SessionIDs]

\* variant: the return after a rejection is missing and the loop is entered
RejectNoReturnMut(response, p) ==
    /\ outbox' = respond(outbox, response, p)
    /\ pc' = "loop"
    /\ UNCHANGED <<height, count, peerSet, sessions>>

\* variant: a rejection counts as an invalid message of the peer
RejectPenalizeMut(response, p) ==
    /\ outbox' = respond(outbox, response, p)
    /\ pc' = "done"
    /\ peerSet' = [q \in DOMAIN peerSet |->
                      IF q = p
                      THEN [peerSet[q] EXCEPT !.invalidMessages = @ + 1]
                      ELSE peerSet[q]]
    /\ UNCHANGED <<height, count, sessions>>

\* variant: the return after a rejection is missing and the final response follows
RejectThenFinalMut(response, p) ==
    /\ outbox' = respond(outbox, response, p)
    /\ pc' = "final"
    /\ UNCHANGED <<height, count, peerSet, sessions>>

\* a rejection: respond and return
Reject(response, p) ==
    /\ outbox' = respond(outbox, response, p)
    /\ pc' = "done"
    /\ UNCHANGED <<height, count, peerSet, sessions>>

\* variant: the count is checked before the height
ParseMessageSwapMut(m, p) ==
    /\ pc = "idle"
    /\ msg' = m
    /\ pid' = p
    /\ LET status == GetPeerStatus(p) IN
       IF UnknownPeer(status) THEN
            /\ Reject(UnknownPeerResponse(m, p), p)
            /\ UNCHANGED ourHeight
       ELSE IF NotHandshaked(status) THEN
            /\ Reject(NotHandshakedResponse(m, status), p)
            /\ UNCHANGED ourHeight
       ELSE
            /\ ourHeight' = LastBlockHeight
            /\ IF HeightNotAcceptable(m.from, ourHeight') THEN
                    Reject(HeightNotAcceptableResponse(m), p)
               ELSE IF TooManyBlocks(m.count) THEN
                    Reject(TooManyBlocksResponse(m), p)
               ELSE IF DontHaveBlocks(m.from, ourHeight') THEN
                    Reject(DontHaveBlocksResponse(m), p)
               ELSE /\ height' = m.from
                    /\ count' = m.count
                    /\ pc' = "loop"
                    /\ UNCHANGED <<outbox, peerSet, sessions>>
    /\ UNCHANGED <<config, stateHeight, store, blockReads, certReads, prev>>

\* ParseMessage, lines 22-77: the checks, up to the entry of the loop
ParseMessage(m, p) ==
    /\ pc = "idle"
    /\ msg' = m
    /\ pid' = p
    /\ LET status == GetPeerStatus(p) IN
       IF UnknownPeer(status) THEN
            /\ Reject(UnknownPeerResponse(m, p), p)
            /\ UNCHANGED ourHeight
       ELSE IF NotHandshaked(status) THEN
            /\ Reject(NotHandshakedResponse(m, status), p)
            /\ UNCHANGED ourHeight
       ELSE
            /\ ourHeight' = LastBlockHeight
            /\ IF HeightNotAcceptable(m.from, ourHeight') THEN
                    Reject(HeightNotAcceptableResponse(m), p)
               ELSE IF DontHaveBlocks(m.from, ourHeight') THEN
                    Reject(DontHaveBlocksResponse(m), p)
               ELSE IF TooManyBlocks(m.count) THEN
                    Reject(TooManyBlocksResponse(m), p)
               ELSE /\ height' = m.from
                    /\ count' = m.count
                    /\ pc' = "loop"
                    /\ UNCHANGED <<outbox, peerSet, sessions>>
    /\ UNCHANGED <<config, stateHeight, store, blockReads, certReads, prev>>

\* one iteration of the loop, lines 78-94
LoopIteration ==
    /\ pc = "loop"
    /\ LET blockToRead == BlockToRead(count)
           blocksData == prepareBlocks(height, blockToRead)
       IN  /\ blockReads' = blockReads + 1
           /\ IF EmptyRead(blocksData) THEN
                    /\ pc' = "final"
                    /\ UNCHANGED <<outbox, height, count>>
              ELSE  /\ outbox' = respond(outbox, MoreBlocksResponse(msg, height, blocksData), pid)
                    /\ height' = NextHeight(height, blocksData)
                    /\ count' = NextCount(count, blocksData)
                    /\ pc' = IF LoopDone(count') THEN "final" ELSE "loop"
    /\ UNCHANGED <<config, peerSet, sessions, stateHeight, store, msg, pid, ourHeight,
                   certReads, prev>>

\* after the loop, lines 96-110
FinalResponse ==
    /\ pc = "final"
    /\ IF ReachedTip(msg, ourHeight) THEN
            LET lastCert == LastCertificate IN
            /\ certReads' = certReads + 1
            /\ outbox' = respond(outbox, SyncedResponse(msg, lastCert), pid)
       ELSE /\ outbox' = respond(outbox, NoMoreBlocksResponse(msg), pid)
            /\ UNCHANGED certReads
    /\ pc' = "done"
    /\ UNCHANGED <<config, peerSet, sessions, stateHeight, store, msg, pid, ourHeight,
                   height, count, blockReads, prev>>

\* the dispatch of msg is over; the event loop takes the next message
EndDispatch ==
    /\ pc \in {"done", "dropped"}
    /\ pc' = "idle"
    /\ msg' = NoRequest
    /\ pid' = NoPeer
    /\ ourHeight' = 0
    /\ height' = 0
    /\ count' = 0
    /\ outbox' = <<>>
    /\ blockReads' = 0
    /\ certReads' = 0
    /\ UNCHANGED <<config, peerSet, sessions, stateHeight, store>>

Return == EndDispatch /\ UNCHANGED prev

\* the state layer commits the next block on its own thread
CommitBlock ==
    /\ stateHeight < MaxHeight
    /\ stateHeight' = stateHeight + 1
    /\ store' = store \cup {stateHeight + 1}
    /\ UNCHANGED <<config, peerSet, sessions, pc, msg, pid, ourHeight, height, count,
                   outbox, blockReads, certReads, prev>>

\* variant: the firewall lets every origin through
FirewallDropsMut(p) == FALSE

\* the firewall check of the dispatch: a bundle whose origin is banned is dropped
FirewallDrops(p) == GetPeerStatus(p) = StatusBanned

\* the bundle is dropped: no handler runs, nothing is sent
Drop(m, p) ==
    /\ pc = "idle"
    /\ msg' = m
    /\ pid' = p
    /\ pc' = "dropped"
    /\ UNCHANGED <<config, peerSet, sessions, stateHeight, store, ourHeight, height,
                   count, outbox, blockReads, certReads, prev>>

\* synchronizer dispatch of an inbound BlocksRequest from peer p
OnInbound(m, p) ==
    IF FirewallDrops(p) THEN Drop(m, p) ELSE ParseMessage(m, p)

Receive == \E m \in Requests, p \in PeerIDs : OnInbound(m, p)

Next ==
    \/ Receive
    \/ LoopIteration
    \/ FinalResponse
    \/ Return
    \/ CommitBlock

Spec == Init /\ [][Next]_vars

\* the handler runs to completion on the event loop: a started ParseMessage
\* takes its next step
SpecFair == Spec /\ WF_vars(LoopIteration) /\ WF_vars(FinalResponse)

\* ---------------------------------------- the same request handled twice
\* the chain and the peer set as the handler finds them
ServerState == <<peerSet, sessions, stateHeight, store>>

\* the dispatch is over; the first of two handlings is recorded
ReturnRecord ==
    /\ EndDispatch
    /\ prev' = IF prev = <<>>
               THEN <<[msg |-> msg, pid |-> pid, state |-> ServerState, outbox |-> outbox]>>
               ELSE <<>>

\* the peer sends the request it sent before
ReceiveAgain == prev # <<>> /\ OnInbound(prev[1].msg, prev[1].pid)

NextRepeat ==
    \/ (prev = <<>> /\ Receive)
    \/ ReceiveAgain
    \/ LoopIteration
    \/ FinalResponse
    \/ ReturnRecord

\* requests are handled in pairs of identical requests while the chain is at rest
SpecRepeat == Init /\ [][NextRepeat]_vars

\* ------------------------------------------------------------- properties
\* the words `words` occur in `text`, next to each other and in order
Contains(text, words) ==
    \E i \in 1 .. (Len(text) - Len(words) + 1) :
        SubSeq(text, i, i + Len(words) - 1) = words

Ceil(n, d) == (n + d - 1) \div d

Handling == pc \in {"loop", "final", "done"}
Returned == pc = "done"
OriginStatus == GetPeerStatus(pid)

\* the responses sent for the request being handled, in send order
Responses == [i \in 1 .. Len(outbox) |-> outbox[i].msg]
WithCode(code) == {i \in 1 .. Len(outbox) : outbox[i].msg.code = code}
MoreBlocks == SelectSeq(Responses, LAMBDA r : r.code = ResponseCodeMoreBlocks)

\* the only response is a Rejected one whose reason holds `words`
OnlyRejected(words) ==
    /\ Len(outbox) = 1
    /\ outbox[1].to = pid
    /\ outbox[1].msg.code = ResponseCodeRejected
    /\ Contains(outbox[1].msg.reason.text, words)

\* the window of check 3 and the five checks, in the integers
InWindow == config.NodeNetwork \/ msg.from >= ourHeight - config.LatestBlockInterval
AllChecksPass ==
    /\ OriginStatus = StatusKnown
    /\ InWindow
    /\ msg.from <= ourHeight
    /\ msg.count <= config.LatestBlockInterval

\* the store holds exactly the blocks 1 .. local_height, as read at line 45
StoreComplete == stateHeight = ourHeight /\ store = 1 .. ourHeight

\* C1: a BlocksRequest from a peer whose status is neither Unknown nor Known gets
\* exactly one response, Rejected with a reason containing "not handshaked", and
\* the handler returns at once: no MoreBlocks, Synced or NoMoreBlocks.
C1_NotHandshaked ==
    (Handling /\ OriginStatus \notin {StatusUnknown, StatusKnown}) =>
        /\ Returned
        /\ OnlyRejected(<<"not", "handshaked">>)

C1_Witness ==
    /\ Returned
    /\ OriginStatus = StatusConnected
    /\ OnlyRejected(<<"not", "handshaked">>)

\* C2: a BlocksRequest from a peer whose status is Unknown, a peer without a
\* record included, gets exactly one response, Rejected with the reason
\* "unknown peer", whatever from, count and the local height are.
C2_UnknownPeer ==
    (Handling /\ OriginStatus = StatusUnknown) =>
        /\ Returned
        /\ OnlyRejected(<<"unknown", "peer">>)

C2_Witness ==
    /\ Returned
    /\ pid \notin DOMAIN peerSet
    /\ msg.from > stateHeight
    /\ msg.count > config.LatestBlockInterval
    /\ OnlyRejected(<<"unknown", "peer">>)

\* C3: a BlocksRequest from a Known peer with from above the local height read at
\* the request gets, on archival and non-archival nodes alike, one response only,
\* Rejected with "don't have requested blocks"; no block is read or sent.
C3_DontHaveBlocks ==
    (Handling /\ OriginStatus = StatusKnown /\ msg.from > ourHeight) =>
        /\ Returned
        /\ OnlyRejected(<<"don't", "have", "requested", "blocks">>)
        /\ outbox[1].msg.blocks = <<>>
        /\ blockReads = 0

C3_Witness ==
    /\ Returned
    /\ OriginStatus = StatusKnown
    /\ ~config.NodeNetwork
    /\ ourHeight > config.LatestBlockInterval
    /\ msg.from > ourHeight
    /\ OnlyRejected(<<"don't", "have", "requested", "blocks">>)

\* C4: a BlocksRequest from a Known peer that passes checks 1-4 is rejected with
\* "too many blocks requested" exactly when count > LatestBlockInterval; then it
\* is the only response and no MoreBlocks is sent. With count <= LatestBlockInterval
\* (count = LatestBlockInterval included) the request is served, not rejected.
C4_TooManyBlocks ==
    (Returned /\ OriginStatus = StatusKnown /\ InWindow /\ msg.from <= ourHeight) =>
        IF msg.count > config.LatestBlockInterval
        THEN /\ OnlyRejected(<<"too", "many", "blocks", "requested">>)
             /\ WithCode(ResponseCodeMoreBlocks) = {}
        ELSE /\ WithCode(ResponseCodeRejected) = {}
             /\ outbox # <<>>
             /\ outbox[Len(outbox)].msg.code \in {ResponseCodeSynced, ResponseCodeNoMoreBlocks}

C4_Witness ==
    /\ Returned
    /\ OriginStatus = StatusKnown
    /\ InWindow
    /\ msg.from <= ourHeight
    /\ msg.count = config.LatestBlockInterval
    /\ WithCode(ResponseCodeRejected) = {}
    /\ WithCode(ResponseCodeMoreBlocks) # {}

\* C5: on a non-archival node a BlocksRequest from a Known peer with
\* from < local_height - LatestBlockInterval gets exactly one response, Rejected,
\* and no blocks.
C5_BelowWindow ==
    (Handling /\ OriginStatus = StatusKnown /\ ~config.NodeNetwork
        /\ msg.from < ourHeight - config.LatestBlockInterval) =>
        /\ Returned
        /\ Len(outbox) = 1
        /\ outbox[1].to = pid
        /\ outbox[1].msg.code = ResponseCodeRejected
        /\ outbox[1].msg.blocks = <<>>
        /\ blockReads = 0

C5_Witness ==
    /\ Returned
    /\ OriginStatus = StatusKnown
    /\ ~config.NodeNetwork
    /\ msg.from < ourHeight - config.LatestBlockInterval
    /\ msg.count <= config.LatestBlockInterval
    /\ Len(outbox) = 1
    /\ outbox[1].msg.code = ResponseCodeRejected

\* C6: an accepted BlocksRequest with from >= 1, served from a store that holds
\* the blocks 1 .. local_height, gets exactly ceil(n / BlockPerMessage) MoreBlocks
\* responses, n = min(count, local_height - from + 1); each carries at most
\* BlockPerMessage blocks and all but the last carry exactly BlockPerMessage.
C6_Pagination ==
    (Returned /\ AllChecksPass /\ msg.from >= 1 /\ StoreComplete) =>
        LET n == Min(msg.count, ourHeight - msg.from + 1)
            k == Len(MoreBlocks)
        IN  /\ k = Ceil(n, config.BlockPerMessage)
            /\ \A i \in 1 .. k : Len(MoreBlocks[i].blocks) <= config.BlockPerMessage
            /\ \A i \in 1 .. (k - 1) : Len(MoreBlocks[i].blocks) = config.BlockPerMessage

C6_Witness ==
    /\ Returned
    /\ AllChecksPass
    /\ msg.from >= 1
    /\ StoreComplete
    /\ Len(MoreBlocks) = 2
    /\ Len(MoreBlocks[2].blocks) < config.BlockPerMessage
    /\ outbox[Len(outbox)].msg.code = ResponseCodeSynced

\* C7: the MoreBlocks responses to one request are contiguous and strictly
\* increasing: the first starts at from, and each later one starts at the
\* previous one's starting height plus the number of blocks it carried.
C7_Contiguous ==
    LET mb == MoreBlocks
    IN  /\ (mb # <<>> => mb[1].from = msg.from)
        /\ \A i \in 1 .. (Len(mb) - 1) :
                /\ mb[i + 1].from = mb[i].from + Len(mb[i].blocks)
                /\ mb[i + 1].from > mb[i].from

C7_Witness ==
    /\ Returned
    /\ Len(MoreBlocks) >= 2
    /\ MoreBlocks[2].from = msg.from + Len(MoreBlocks[1].blocks)

\* C8: every MoreBlocks response carries at least one block, whatever the request
\* and whatever the store returns, a read of zero blocks included.
C8_MoreBlocksNotEmpty ==
    \A i \in WithCode(ResponseCodeMoreBlocks) : Len(outbox[i].msg.blocks) >= 1

\* a read returned no block although blocks were still asked for
C8_Witness ==
    /\ pc = "final"
    /\ count > 0
    /\ blockReads >= 2
    /\ WithCode(ResponseCodeMoreBlocks) # {}
    /\ C8_MoreBlocksNotEmpty

\* C9: every Synced response carries a certificate and no blocks, and the height
\* it reports is the height of that certificate.
C9_SyncedCertificate ==
    \A i \in WithCode(ResponseCodeSynced) :
        LET r == outbox[i].msg
        IN  /\ Len(r.cert) = 1
            /\ r.from = r.cert[1].height
            /\ r.blocks = <<>>

\* a Synced sent after the state layer committed a block during the handling
C9_Witness ==
    \E i \in WithCode(ResponseCodeSynced) :
        /\ outbox[i].msg.from > ourHeight
        /\ outbox[i].msg.from = outbox[i].msg.cert[1].height

C11_CountZero ==
    (Returned /\ AllChecksPass /\ msg.count = 0) =>
        /\ Len(outbox) = 1
        /\ outbox[1].msg.code = ResponseCodeNoMoreBlocks
        /\ outbox[1].msg.blocks = <<>>

\* C12 as stated: a BlocksRequest from a Known peer with from = local_height and
\* count <= LatestBlockInterval gets Synced, with the tip certificate, as its
\* first response.
C12_SyncedFirst ==
    (Returned /\ OriginStatus = StatusKnown /\ msg.from = ourHeight
        /\ msg.count <= config.LatestBlockInterval) =>
        /\ outbox # <<>>
        /\ outbox[1].msg.code = ResponseCodeSynced
        /\ Len(outbox[1].msg.cert) = 1

\* C12, amended: a BlocksRequest from a Known peer with from = local_height and
\* 1 <= count <= LatestBlockInterval gets Synced, with the certificate of
\* state.LastCertificate(), as its last response; only MoreBlocks responses
\* precede it, and when the store holds the tip block the first response is a
\* MoreBlocks that starts at from and carries it.
C12_SyncedLast ==
    (Returned /\ OriginStatus = StatusKnown /\ msg.from = ourHeight
        /\ msg.count >= 1 /\ msg.count <= config.LatestBlockInterval) =>
        LET n == Len(outbox)
        IN  /\ n >= 1
            /\ outbox[n].msg.code = ResponseCodeSynced
            /\ Len(outbox[n].msg.cert) = 1
            /\ outbox[n].msg.cert[1].height >= ourHeight
            /\ \A i \in 1 .. (n - 1) : outbox[i].msg.code = ResponseCodeMoreBlocks
            /\ (ourHeight \in store =>
                    /\ n >= 2
                    /\ outbox[1].msg.from = msg.from
                    /\ outbox[1].msg.blocks[1] = ourHeight)

C12_Witness ==
    /\ Returned
    /\ OriginStatus = StatusKnown
    /\ msg.from = ourHeight
    /\ ourHeight >= 1
    /\ msg.count >= 1
    /\ Len(outbox) = 2
    /\ outbox[1].msg.code = ResponseCodeMoreBlocks
    /\ outbox[1].msg.blocks = <<ourHeight>>
    /\ outbox[2].msg.code = ResponseCodeSynced

\* C13: when a precondition check fails the handler does nothing more: it sends
\* one message, the Rejected response with a reason and without blocks or
\* certificate, reads no block and no certificate, and returns, so that no
\* MoreBlocks, Synced or NoMoreBlocks follows.
C13_RejectAndReturn ==
    (Handling /\ ~AllChecksPass) =>
        /\ Returned
        /\ Len(outbox) = 1
        /\ outbox[1].to = pid
        /\ outbox[1].msg.code = ResponseCodeRejected
        /\ outbox[1].msg.reason.text # <<>>
        /\ outbox[1].msg.blocks = <<>>
        /\ outbox[1].msg.cert = <<>>
        /\ blockReads = 0
        /\ certReads = 0

\* a rejection for the count alone, of a request whose first block is in the store
C13_Witness ==
    /\ Returned
    /\ OriginStatus = StatusKnown
    /\ InWindow
    /\ msg.from <= ourHeight
    /\ msg.from \in store
    /\ msg.count > config.LatestBlockInterval
    /\ Len(outbox) = 1
    /\ outbox[1].msg.code = ResponseCodeRejected
    /\ blockReads = 0

\* a step of the handler, as opposed to a step of the state layer
HandlerStep == <<pc, msg, pid, outbox, blockReads, certReads>>' # <<pc, msg, pid, outbox, blockReads, certReads>>

\* C14: handling a BlocksRequest changes no server-side sync state: on every path
\* the peer set (status and invalid_messages of the origin peer), the session
\* table and the chain state keep their values; hence the same request handled
\* twice against the same state gets the same sequence of responses.
C14_Stateless ==
    /\ [][HandlerStep => UNCHANGED ServerState]_vars
    /\ []((pc \in {"done", "dropped"} /\ prev # <<>> /\ prev[1].state = ServerState) =>
            /\ prev[1].msg = msg
            /\ prev[1].pid = pid
            /\ prev[1].outbox = outbox)

\* the second handling of a request that was served with blocks
C14_Witness ==
    /\ Returned
    /\ prev # <<>>
    /\ prev[1].msg = msg
    /\ prev[1].state = ServerState
    /\ prev[1].outbox = outbox
    /\ Len(outbox) >= 2

FailedCheck ==
    IF OriginStatus = StatusUnknown THEN 1
    ELSE IF OriginStatus # StatusKnown THEN 2
    ELSE IF ~InWindow THEN 3
    ELSE IF msg.from > ourHeight THEN 4
    ELSE IF msg.count > config.LatestBlockInterval THEN 5
    ELSE 0

\* the reason texts the specification gives for the five checks
SpecReason ==
    <<  <<"unknown", "peer">>,
        <<"not", "handshaked">>,
        <<"request", "height", "not", "acceptable">>,
        <<"don't", "have", "requested", "blocks">>,
        <<"too", "many", "blocks", "requested">>  >>

\* C16: each Rejected response carries, within its reason, the text the
\* specification assigns to the check that failed.
C16_SpecReasons ==
    (Returned /\ FailedCheck # 0) => OnlyRejected(SpecReason[FailedCheck])

\* the heights of the blocks of the MoreBlocks responses, in the order sent
RECURSIVE Flatten(_)
Flatten(rs) == IF rs = <<>> THEN <<>> ELSE Head(rs).blocks \o Flatten(Tail(rs))
Delivered == Flatten(MoreBlocks)

\* C17: for an accepted BlocksRequest with from >= 1 that ends in Synced with
\* height H, handled with no state change and a store holding every block up to
\* local_height, the MoreBlocks responses before it carry exactly the heights
\* from .. H, each once and in increasing order; H is the certificate's height.
C17_DeliversUpToSynced ==
    (Returned /\ AllChecksPass /\ msg.from >= 1 /\ StoreComplete
        /\ outbox[Len(outbox)].msg.code = ResponseCodeSynced) =>
        LET last == outbox[Len(outbox)].msg
            H == last.from
        IN  /\ H = last.cert[1].height
            /\ H >= msg.from
            /\ Delivered = [i \in 1 .. (H - msg.from + 1) |-> msg.from + i - 1]
            /\ \A i \in 1 .. (Len(outbox) - 1) : outbox[i].msg.code = ResponseCodeMoreBlocks

C17_Witness ==
    /\ Returned
    /\ AllChecksPass
    /\ msg.from >= 1
    /\ StoreComplete
    /\ outbox[Len(outbox)].msg.code = ResponseCodeSynced
    /\ Len(MoreBlocks) >= 2
    /\ Delivered[Len(Delivered)] = outbox[Len(outbox)].msg.from

TerminalCodes == {ResponseCodeRejected, ResponseCodeSynced, ResponseCodeNoMoreBlocks}

\* C18: a handled BlocksRequest gets exactly one terminal response (Rejected,
\* Synced or NoMoreBlocks) and it is the last message sent for the request: only
\* MoreBlocks responses precede a Synced or a NoMoreBlocks, nothing follows the
\* terminal response, and Synced and NoMoreBlocks are never both sent.
C18_OneTerminal ==
    /\ (pc \in {"loop", "final"} =>
            \A i \in 1 .. Len(outbox) : outbox[i].msg.code = ResponseCodeMoreBlocks)
    /\ (Returned =>
            LET n == Len(outbox)
            IN  /\ n >= 1
                /\ outbox[n].msg.code \in TerminalCodes
                /\ \A i \in 1 .. (n - 1) : outbox[i].msg.code = ResponseCodeMoreBlocks
                /\ (outbox[n].msg.code = ResponseCodeRejected => n = 1)
                /\ ~(WithCode(ResponseCodeSynced) # {} /\ WithCode(ResponseCodeNoMoreBlocks) # {}))

C18_Witness ==
    /\ Returned
    /\ Len(outbox) >= 3
    /\ outbox[Len(outbox)].msg.code = ResponseCodeNoMoreBlocks
    /\ Cardinality(WithCode(ResponseCodeMoreBlocks)) = Len(outbox) - 1

\* C19: with the state layer committing blocks while ParseMessage runs, a Synced
\* response leaves no gap: in every interleaving the height it reports is the
\* height of the last block delivered in the MoreBlocks responses before it.
\* Stated for from >= 1 and a store that misses no block, so that only the
\* interleaving with the commits can tell.
C19_SyncedNoGap ==
    \A i \in WithCode(ResponseCodeSynced) :
        (msg.from >= 1 /\ store = 1 .. stateHeight) =>
            /\ Delivered # <<>>
            /\ outbox[i].msg.from = Delivered[Len(Delivered)]

\* the reason texts of the code for the five checks (lines 29, 38, 49, 59, 68)
CodeReason ==
    [SpecReason EXCEPT ![3] = <<"the", "request", "height", "is", "not", "acceptable">>]

\* C20: the checks are applied in the listed order and the first one that fails
\* gives the reason: an Unknown peer is rejected as "unknown peer" and a peer that
\* is not Known as "not handshaked" whatever from and count are, and a Known peer
\* with from > local_height and count > LatestBlockInterval is rejected with
\* "don't have requested blocks", not with "too many blocks requested".
C20_FirstFailure ==
    (Handling /\ FailedCheck # 0) =>
        /\ Returned
        /\ OnlyRejected(CodeReason[FailedCheck])
        /\ \A k \in (1 .. 5) \ {FailedCheck} :
                ~Contains(outbox[1].msg.reason.text, CodeReason[k])

C20_Witness ==
    /\ Returned
    /\ OriginStatus = StatusKnown
    /\ msg.from > ourHeight
    /\ msg.count > config.LatestBlockInterval
    /\ OnlyRejected(<<"don't", "have", "requested", "blocks">>)

\* the response is the rejection of check 3, in the wording of the code or of
\* the specification
WindowRejected ==
    /\ Len(outbox) = 1
    /\ outbox[1].msg.code = ResponseCodeRejected
    /\ Contains(outbox[1].msg.reason.text, <<"request", "height">>)
    /\ Contains(outbox[1].msg.reason.text, <<"not", "acceptable">>)

\* C21 as stated: on a non-archival node a BlocksRequest from a Known peer with
\* from > local_height fails check 3, the window check, and is rejected with the
\* window reason.
C21_AboveTipFailsWindow ==
    (Returned /\ OriginStatus = StatusKnown /\ ~config.NodeNetwork
        /\ msg.from > ourHeight) => WindowRejected

\* C21, amended: check 3 enforces the lower side of the window only; on a
\* non-archival node a BlocksRequest from a Known peer with from > local_height
\* passes check 3 and is rejected by check 4 with "don't have requested blocks".
C21_AboveTipFailsCheck4 ==
    (Handling /\ OriginStatus = StatusKnown /\ ~config.NodeNetwork
        /\ msg.from > ourHeight) =>
        /\ Returned
        /\ OnlyRejected(CodeReason[4])
        /\ ~WindowRejected

C21_Witness ==
    /\ Returned
    /\ OriginStatus = StatusKnown
    /\ ~config.NodeNetwork
    /\ ourHeight > config.LatestBlockInterval
    /\ msg.from > ourHeight
    /\ msg.count <= config.LatestBlockInterval
    /\ OnlyRejected(CodeReason[4])
    /\ ~WindowRejected

\* the request sits exactly on the lower bound of a non-archival node's window
AtLowerBound ==
    /\ OriginStatus = StatusKnown
    /\ ~config.NodeNetwork
    /\ ourHeight > config.LatestBlockInterval
    /\ msg.from = ourHeight - config.LatestBlockInterval
    /\ msg.count <= config.LatestBlockInterval

\* the first response is a MoreBlocks that starts at the requested from
ServedFromStart ==
    /\ Len(outbox) >= 1
    /\ outbox[1].msg.code = ResponseCodeMoreBlocks
    /\ outbox[1].msg.from = msg.from
    /\ Head(outbox[1].msg.blocks) = msg.from

\* C22 as stated: a request on the lower bound of the window with
\* count <= LatestBlockInterval is not rejected and is served with MoreBlocks
\* starting at from (the store holding the block at from).
C22_LowerBoundServed ==
    (Returned /\ AtLowerBound /\ msg.from \in store) =>
        /\ WithCode(ResponseCodeRejected) = {}
        /\ ServedFromStart

\* C22, amended: the window is inclusive at its lower bound: a request on the
\* bound with count <= LatestBlockInterval is never rejected; with count >= 1
\* and the block at from in the store its first response is a MoreBlocks
\* starting at from, and with count = 0 it gets no MoreBlocks at all.
C22_LowerBoundInclusive ==
    (Returned /\ AtLowerBound) =>
        /\ WithCode(ResponseCodeRejected) = {}
        /\ (msg.count >= 1 /\ msg.from \in store) => ServedFromStart
        /\ msg.count = 0 => MoreBlocks = <<>>

C22_Witness ==
    /\ Returned
    /\ AtLowerBound
    /\ msg.count >= 1
    /\ ServedFromStart

\* C23: on an archival node (NodeNetwork) the window check is skipped: a request
\* from a Known peer with 1 <= from <= local_height and
\* count <= LatestBlockInterval is never answered Rejected, however far from lies
\* below local_height - LatestBlockInterval, and ends in Synced or NoMoreBlocks.
C23_ArchivalAccepts ==
    (Handling /\ OriginStatus = StatusKnown /\ config.NodeNetwork
        /\ 1 <= msg.from /\ msg.from <= ourHeight
        /\ msg.count <= config.LatestBlockInterval) =>
        /\ WithCode(ResponseCodeRejected) = {}
        /\ Returned => outbox[Len(outbox)].msg.code
                          \in {ResponseCodeSynced, ResponseCodeNoMoreBlocks}

C23_Witness ==
    /\ Returned
    /\ OriginStatus = StatusKnown
    /\ config.NodeNetwork
    /\ ourHeight > config.LatestBlockInterval
    /\ 1 <= msg.from
    /\ msg.from < ourHeight - config.LatestBlockInterval
    /\ msg.count <= config.LatestBlockInterval
    /\ WithCode(ResponseCodeRejected) = {}
    /\ MoreBlocks # <<>>

\* C24: every response of the handler (each Rejected, MoreBlocks, Synced and
\* NoMoreBlocks) carries the session id of the request and is sent to the peer
\* the request came from, never to another peer and never broadcast.
C24_SameSessionSamePeer ==
    \A i \in 1 .. Len(outbox) :
        /\ outbox[i].msg.sessionID = msg.sessionID
        /\ outbox[i].to = pid
        /\ outbox[i].to \in PeerIDs

C24_Witness ==
    /\ Returned
    /\ msg.sessionID = 2
    /\ pid = "p1"
    /\ Len(MoreBlocks) >= 2
    /\ Len(outbox) = Len(MoreBlocks) + 1
    /\ \A i \in 1 .. Len(outbox) : outbox[i].msg.sessionID = 2 /\ outbox[i].to = "p1"

\* the handler is inside ParseMessage, past the checks
InLoopOrAfter == pc \in {"loop", "final"}

\* the bounds on the work of one handling: iterations of the loop and MoreBlocks
\* messages sent
Iterations == blockReads

\* C25 as stated: the pagination loop runs at most count iterations, and at
\* most count <= LatestBlockInterval MoreBlocks are sent before the terminal
\* response.
C25_AtMostCountIterations ==
    (Handling /\ AllChecksPass) =>
        /\ Iterations <= msg.count
        /\ Len(MoreBlocks) <= msg.count
        /\ msg.count <= config.LatestBlockInterval

\* C25, amended: ParseMessage terminates for every request and every store in
\* which a read of k blocks returns between 0 and k blocks: an iteration of the
\* loop that does not leave it lowers the remaining count by at least one, the
\* loop runs at most max(count, 1) iterations (one, broken at the empty read,
\* for count = 0), at most count <= LatestBlockInterval MoreBlocks are sent, and
\* a handler past the checks reaches its return.
C25_Terminates ==
    /\ []((Handling /\ AllChecksPass) =>
            /\ Iterations <= (IF msg.count = 0 THEN 1 ELSE msg.count)
            /\ Len(MoreBlocks) <= msg.count
            /\ msg.count <= config.LatestBlockInterval)
    /\ [][(pc = "loop" /\ pc' = "loop" /\ blockReads' # blockReads) =>
            (count' < count /\ count' >= 1)]_vars
    /\ (InLoopOrAfter ~> Returned)

C25_Witness ==
    /\ Returned
    /\ AllChecksPass
    /\ msg.count = config.LatestBlockInterval
    /\ Iterations = msg.count
    /\ Iterations >= 3
    /\ Len(MoreBlocks) < Iterations

\* C26: the blocks sent in the MoreBlocks responses of one request are never
\* more than count and none lies above from + count - 1; the remaining count,
\* an unsigned 32-bit value, is the requested count less the blocks sent and
\* never wraps below zero, a read of k blocks returning at most k.
C26_NeverMoreThanCount ==
    (Handling /\ AllChecksPass) =>
        /\ Len(Delivered) <= msg.count
        /\ \A i \in 1 .. Len(Delivered) :
              msg.from <= Delivered[i] /\ Delivered[i] <= msg.from + msg.count - 1
        /\ count = msg.count - Len(Delivered)
        /\ count <= msg.count
        /\ pc = "loop" => Len(prepareBlocks(height, BlockToRead(count))) <= count

\* the request is served in full although the store holds the next block too
C26_Witness ==
    /\ Returned
    /\ AllChecksPass
    /\ msg.count >= 3
    /\ config.BlockPerMessage = 2
    /\ Len(Delivered) = msg.count
    /\ count = 0
    /\ (msg.from + msg.count) \in store

\* C27: on a non-archival node with local_height <= LatestBlockInterval the
\* window check rejects nothing and the unsigned local_height -
\* LatestBlockInterval is not evaluated: a request from a Known peer with
\* from <= local_height and count <= LatestBlockInterval is never answered
\* Rejected and ends in Synced or NoMoreBlocks.
C27_YoungChainServes ==
    (Handling /\ OriginStatus = StatusKnown /\ ~config.NodeNetwork
        /\ ourHeight <= config.LatestBlockInterval
        /\ msg.from <= ourHeight
        /\ msg.count <= config.LatestBlockInterval) =>
        /\ ~HeightNotAcceptable(msg.from, ourHeight)
        /\ WithCode(ResponseCodeRejected) = {}
        /\ Returned => outbox[Len(outbox)].msg.code
                          \in {ResponseCodeSynced, ResponseCodeNoMoreBlocks}

\* local_height is below LatestBlockInterval, where the difference would wrap
C27_Witness ==
    /\ Returned
    /\ OriginStatus = StatusKnown
    /\ ~config.NodeNetwork
    /\ ourHeight < config.LatestBlockInterval
    /\ USub(ourHeight, config.LatestBlockInterval) > msg.from
    /\ 1 <= msg.from
    /\ msg.from <= ourHeight
    /\ msg.count <= config.LatestBlockInterval
    /\ WithCode(ResponseCodeRejected) = {}
    /\ MoreBlocks # <<>>

====
